---- MODULE Spec2Model ----
(***************************************************************************)
(* The Modelfile scanner of parser/parser.go: Parse reads its io.Reader    *)
(* rune by rune through a bufio.Reader and drives a six-mode state         *)
(* machine that appends Command records to a list.                         *)
(*                                                                         *)
(* Runes are code points (naturals); Go strings and bytes.Buffer contents  *)
(* are sequences of code points.                                           *)
(***************************************************************************)
EXTENDS Naturals, Sequences, FiniteSets, TLC

(***************************************************************************)
(* Bounds of the model.                                                    *)
(***************************************************************************)
\* Number of non-empty reads the underlying io.Reader serves before EOF.
MaxChunks == 5

(***************************************************************************)
(* Scanner modes: the iota constants of parser.go lines 18-25.             *)
(***************************************************************************)
stateName == 0
stateArgs == 1
stateMultiline == 2
stateParameter == 3
stateMessage == 4
stateComment == 5

(***************************************************************************)
(* Rune literals the source names.                                         *)
(***************************************************************************)
TAB == 9
LF == 10
CR == 13
SPACE == 32
DQUOTE == 34
HASH == 35
UNDERSCORE == 95

(***************************************************************************)
(* String literals of the source, as rune sequences.                       *)
(***************************************************************************)
\* "from"
strFrom == <<102, 114, 111, 109>>
\* "model"
strModel == <<109, 111, 100, 101, 108>>
\* "parameter"
strParameter == <<112, 97, 114, 97, 109, 101, 116, 101, 114>>
\* "message"
strMessage == <<109, 101, 115, 115, 97, 103, 101>>
\* "system"
strSystem == <<115, 121, 115, 116, 101, 109>>
\* "user"
strUser == <<117, 115, 101, 114>>
\* "assistant"
strAssistant == <<97, 115, 115, 105, 115, 116, 97, 110, 116>>
\* ": "
strColonSpace == <<58, 32>>

(***************************************************************************)
(* Rune classes, parser.go lines 172-190.                                  *)
(***************************************************************************)
alpha(r) == (r >= 97 /\ r <= 122) \/ (r >= 65 /\ r <= 90)

number(r) == r >= 48 /\ r <= 57

space(r) == r = SPACE \/ r = TAB

\* Variant: only a line feed is a newline.
newlineLineFeedOnly(r) == r = LF

newline(r) == r = CR \/ r = LF

quote(r) == r = DQUOTE \/ r = 39

\* Variant: the role is compared without regard to letter case.
isValidRoleAnyCase(role) ==
    LET low == [i \in 1..Len(role) |-> IF role[i] >= 65 /\ role[i] <= 90 THEN role[i] + 32 ELSE role[i]]
    IN  low = strSystem \/ low = strUser \/ low = strAssistant

isValidRole(role) == role = strSystem \/ role = strUser \/ role = strAssistant

(***************************************************************************)
(* strings.ToLower on the ASCII runes the model feeds.                     *)
(***************************************************************************)
ToLowerRune(r) == IF r >= 65 /\ r <= 90 THEN r + 32 ELSE r

ToLower(str) == [i \in 1..Len(str) |-> ToLowerRune(str[i])]

(***************************************************************************)
(* Errors.  An error value is its message: a fixed text plus the           *)
(* formatted operands.  NoErr is Go's nil error.                           *)
(***************************************************************************)
NoErr == [msg |-> "nil", arg |-> <<>>]

\* fmt.Errorf("missing value for [%s]", b.String())
ErrMissingValue(tok) == [msg |-> "missing value for [%s]", arg |-> tok]

\* fmt.Errorf("unexpected rune %q for state %d", r, s)
ErrUnexpectedRune(r, st) == [msg |-> "unexpected rune %q for state %d", arg |-> <<r, st>>]

ErrRole == [msg |-> "role must be one of \"system\", \"user\", or \"assistant\"", arg |-> <<>>]

ErrUnterminated == [msg |-> "unterminated multiline string", arg |-> <<>>]

ErrNoFrom == [msg |-> "no FROM line", arg |-> <<>>]

\* A failure of the underlying reader other than io.EOF, returned unchanged.
ErrRead == [msg |-> "read error", arg |-> <<>>]

(***************************************************************************)
(* type Command struct { Name string; Args string; bytes.Buffer }          *)
(***************************************************************************)
Command == [Name |-> <<>>, Args |-> <<>>, Buffer |-> <<>>]

(***************************************************************************)
(* The locals of one call of Parse, as a record:                           *)
(*   s, b, cmd, cmds   the locals of the source;                           *)
(*   pc                "scan" while in the loop, "done" once returned;     *)
(*   retCmds, retErr   the returned pair ([]Command nil is <<>>).          *)
(***************************************************************************)
ParseStart ==
    [s |-> stateName, b |-> <<>>, cmd |-> Command, cmds |-> <<>>,
     pc |-> "scan", retCmds |-> <<>>, retErr |-> NoErr]

\* Variant: the records scanned so far are returned with the error.
ReturnErrKeepsRecords(st, e) == [st EXCEPT !.pc = "done", !.retCmds = st.cmds, !.retErr = e]

\* return nil, err
ReturnErr(st, e) == [st EXCEPT !.pc = "done", !.retCmds = <<>>, !.retErr = e]

\* return cmds, nil
ReturnOk(st) == [st EXCEPT !.pc = "done", !.retCmds = st.cmds, !.retErr = NoErr]

\* Routing on the finalized directive name, lines 64-71.
RouteName(name) ==
    IF name = strParameter THEN stateParameter
    ELSE IF name = strMessage THEN stateMessage
    ELSE stateArgs

\* Variant: the keyword is taken as typed, not lowercased.
DirectiveNameCaseSensitive(tok) ==
    IF tok = strFrom THEN strModel ELSE tok

\* The directive name as stored, lines 57-62.
DirectiveName(tok) ==
    IF ToLower(tok) = strFrom THEN strModel ELSE ToLower(tok)

\* Variant: name mode takes an underscore as part of the name.
StepNameTakesUnderscore(st, r) ==
    IF alpha(r) \/ number(r) \/ r = UNDERSCORE THEN [st EXCEPT !.b = Append(@, r)]
    ELSE IF r = HASH THEN [st EXCEPT !.s = stateComment]
    ELSE IF space(r) THEN
        IF Len(st.b) > 0
        THEN [st EXCEPT !.cmd.Name = DirectiveName(st.b),
                        !.b = <<>>,
                        !.s = RouteName(DirectiveName(st.b))]
        ELSE st
    ELSE IF newline(r) THEN
        IF Len(st.b) > 0 THEN ReturnErr(st, ErrMissingValue(st.b)) ELSE st
    ELSE ReturnErr(st, ErrUnexpectedRune(r, st.s))

\* case stateName, lines 47-79.
StepName(st, r) ==
    IF alpha(r) \/ number(r) THEN [st EXCEPT !.b = Append(@, r)]
    ELSE IF r = HASH THEN [st EXCEPT !.s = stateComment]
    ELSE IF space(r) THEN
        IF Len(st.b) > 0
        THEN [st EXCEPT !.cmd.Name = DirectiveName(st.b),
                        !.b = <<>>,
                        !.s = RouteName(DirectiveName(st.b))]
        ELSE st
    ELSE IF newline(r) THEN
        IF Len(st.b) > 0 THEN ReturnErr(st, ErrMissingValue(st.b)) ELSE st
    ELSE ReturnErr(st, ErrUnexpectedRune(r, st.s))

\* Variant: the key is stored as typed, not lowercased.
StepParameterKeepCase(st, r) ==
    IF alpha(r) \/ number(r) \/ r = UNDERSCORE THEN [st EXCEPT !.b = Append(@, r)]
    ELSE IF space(r) THEN
        [st EXCEPT !.cmd.Name = st.b, !.b = <<>>, !.s = stateArgs]
    ELSE IF newline(r) THEN ReturnErr(st, ErrMissingValue(st.b))
    ELSE ReturnErr(st, ErrUnexpectedRune(r, st.s))

\* case stateParameter, lines 80-94.
StepParameter(st, r) ==
    IF alpha(r) \/ number(r) \/ r = UNDERSCORE THEN [st EXCEPT !.b = Append(@, r)]
    ELSE IF space(r) THEN
        [st EXCEPT !.cmd.Name = ToLower(st.b), !.b = <<>>, !.s = stateArgs]
    ELSE IF newline(r) THEN ReturnErr(st, ErrMissingValue(st.b))
    ELSE ReturnErr(st, ErrUnexpectedRune(r, st.s))

\* case stateArgs, lines 95-110.
StepArgs(st, r) ==
    IF newline(r) THEN
        LET done == [st.cmd EXCEPT !.Args = st.cmd.Args \o st.b]
        IN  [st EXCEPT !.b = <<>>,
                       !.cmds = Append(@, done),
                       !.cmd = Command,
                       !.s = stateName]
    ELSE [st EXCEPT !.b = Append(@, r)]

\* case stateMultiline, lines 111-119.
StepMultiline(st, r) == [st EXCEPT !.b = Append(@, r)]

\* Variant: the role is checked but not put in front of the value.
StepMessageNoSeed(st, r) ==
    IF space(r) THEN
        IF ~isValidRole(st.b) THEN ReturnErr(st, ErrRole)
        ELSE [st EXCEPT !.b = <<>>, !.s = stateArgs]
    ELSE IF newline(r) THEN ReturnErr(st, ErrMissingValue(st.b))
    ELSE [st EXCEPT !.b = Append(@, r)]

\* case stateMessage, lines 120-140.
StepMessage(st, r) ==
    IF space(r) THEN
        IF ~isValidRole(st.b) THEN ReturnErr(st, ErrRole)
        ELSE [st EXCEPT !.cmd.Args = @ \o (st.b \o strColonSpace),
                        !.b = <<>>,
                        !.s = stateArgs]
    ELSE IF newline(r) THEN ReturnErr(st, ErrMissingValue(st.b))
    ELSE [st EXCEPT !.b = Append(@, r)]

\* Variant: the end of a comment leaves the name buffer as it is.
StepCommentKeepsBuffer(st, r) ==
    IF newline(r)
    THEN [st EXCEPT !.cmd = Command, !.s = stateName]
    ELSE st

\* Variant: only a line feed ends a comment.
StepCommentLineFeedOnly(st, r) ==
    IF r = LF
    THEN [st EXCEPT !.b = <<>>, !.cmd = Command, !.s = stateName]
    ELSE st

\* case stateComment, lines 141-147.
StepComment(st, r) ==
    IF newline(r)
    THEN [st EXCEPT !.b = <<>>, !.cmd = Command, !.s = stateName]
    ELSE st

\* One iteration of the loop for a rune that was read: lines 42-147.
Step(st, r) ==
    LET st1 == [st EXCEPT !.cmd.Buffer = Append(@, r)]
    IN  CASE st.s = stateName -> StepName(st1, r)
          [] st.s = stateParameter -> StepParameter(st1, r)
          [] st.s = stateArgs -> StepArgs(st1, r)
          [] st.s = stateMultiline -> StepMultiline(st1, r)
          [] st.s = stateMessage -> StepMessage(st1, r)
          [] st.s = stateComment -> StepComment(st1, r)

\* Variant: a token left in the buffer at the end of input is dropped.
TrailingDropsToken(st) ==
    IF Len(st.b) > 0 THEN
        IF st.s = stateArgs
        THEN [st EXCEPT !.cmd.Args = st.b,
                        !.cmds = Append(@, [st.cmd EXCEPT !.Args = st.b])]
        ELSE IF st.s = stateMultiline THEN ReturnErr(st, ErrUnterminated)
        ELSE st
    ELSE st

\* "handle trailing buffer", lines 150-161.
Trailing(st) ==
    IF Len(st.b) > 0 THEN
        IF st.s = stateArgs
        THEN [st EXCEPT !.cmd.Args = st.b,
                        !.cmds = Append(@, [st.cmd EXCEPT !.Args = st.b])]
        ELSE IF st.s = stateMultiline THEN ReturnErr(st, ErrUnterminated)
        ELSE ReturnErr(st, ErrMissingValue(st.b))
    ELSE st

\* The FROM check, lines 163-169.
CheckFrom(st) ==
    IF \E i \in 1..Len(st.cmds) : st.cmds[i].Name = strModel
    THEN ReturnOk(st)
    ELSE ReturnErr(st, ErrNoFrom)

\* After the loop breaks on io.EOF: lines 150-169.
Finish(st) ==
    LET st1 == Trailing(st)
    IN  IF st1.pc = "done" THEN st1 ELSE CheckFrom(st1)

\* The loop over the runes doc[i..], then the end of input.
RECURSIVE ScanFrom(_, _, _)
ScanFrom(st, doc, i) ==
    IF st.pc = "done" THEN st
    ELSE IF i > Len(doc) THEN Finish(st)
    ELSE ScanFrom(Step(st, doc[i]), doc, i + 1)

\* Parse(strings.NewReader(doc)).
Parse(doc) == ScanFrom(ParseStart, doc, 1)

(***************************************************************************)
(* What the reader serves.  One read returns one chunk; the chunks of a    *)
(* document come from one vocabulary, chosen when the reader is made.      *)
(***************************************************************************)
\* "FROM User" and a line feed: a complete base-model line
wFromLine == <<70, 82, 79, 77, SPACE, 85, 115, 101, 114, LF>>
\* "From"
wFrom == <<70, 114, 111, 109>>
\* "MODEL"
wMODEL == <<77, 79, 68, 69, 76>>
\* "PARAMETER" and a space
wPARAMETER == <<80, 65, 82, 65, 77, 69, 84, 69, 82, SPACE>>
\* "MESSAGE" and a space
wMESSAGE == <<77, 69, 83, 83, 65, 71, 69, SPACE>>
\* "User"
wUser == <<85, 115, 101, 114>>
\* three double quotes
wTriple == <<DQUOTE, DQUOTE, DQUOTE>>
\* "# "
wHash == <<HASH, SPACE>>
\* "_1"
wKeyTail == <<UNDERSCORE, 49>>

\* Keywords, plain values, comments and both line terminators.
KeywordChunks ==
    { wFromLine, wMODEL, wUser, wHash, <<SPACE>>, <<LF>>, <<CR>> }

\* PARAMETER lines.
ParameterChunks ==
    { wFromLine, wPARAMETER, wUser, wKeyTail, wHash, <<TAB>>, <<LF>> }

\* MESSAGE lines.
MessageChunks ==
    { wFromLine, wMESSAGE, strUser, wUser, <<SPACE>>, <<TAB>>, <<LF>> }

\* Quoted values.
QuoteChunks ==
    { wFromLine, wFrom, wUser, wTriple, wMESSAGE \o strUser, <<SPACE>>, <<LF>> }

Vocabularies == { KeywordChunks, ParameterChunks, MessageChunks, QuoteChunks }

(***************************************************************************)
(* State.                                                                  *)
(*   input   the runes the underlying reader has served so far;            *)
(*   pos     how many of them ReadRune has returned;                       *)
(*   nread   the number of reads served;                                   *)
(*   eof     the reader has reported io.EOF;                               *)
(*   vocab   the vocabulary of the document being served;                  *)
(*   s, b, cmd, cmds, pc, retCmds, retErr: see ParseStart.                 *)
(***************************************************************************)
VARIABLES input, pos, nread, eof, vocab, s, b, cmd, cmds, pc, retCmds, retErr

vars == <<input, pos, nread, eof, vocab, s, b, cmd, cmds, pc, retCmds, retErr>>

Cur ==
    [s |-> s, b |-> b, cmd |-> cmd, cmds |-> cmds,
     pc |-> pc, retCmds |-> retCmds, retErr |-> retErr]

Become(st) ==
    /\ s' = st.s
    /\ b' = st.b
    /\ cmd' = st.cmd
    /\ cmds' = st.cmds
    /\ pc' = st.pc
    /\ retCmds' = st.retCmds
    /\ retErr' = st.retErr

Init ==
    /\ input = <<>>
    /\ pos = 0
    /\ nread = 0
    /\ eof = FALSE
    /\ vocab \in Vocabularies
    /\ s = ParseStart.s
    /\ b = ParseStart.b
    /\ cmd = ParseStart.cmd
    /\ cmds = ParseStart.cmds
    /\ pc = ParseStart.pc
    /\ retCmds = ParseStart.retCmds
    /\ retErr = ParseStart.retErr

\* bufio.Reader has nothing buffered and the underlying reader serves a chunk.
Fill ==
    /\ pc = "scan"
    /\ pos = Len(input)
    /\ nread < MaxChunks
    /\ \E c \in vocab : input' = input \o c
    /\ nread' = nread + 1
    /\ UNCHANGED <<pos, eof, vocab, s, b, cmd, cmds, pc, retCmds, retErr>>

\* br.ReadRune() returns the next buffered rune; one loop iteration.
ReadRune ==
    /\ pc = "scan"
    /\ pos < Len(input)
    /\ pos' = pos + 1
    /\ Become(Step(Cur, input[pos + 1]))
    /\ UNCHANGED <<input, nread, eof, vocab>>

\* br.ReadRune() returns io.EOF: the loop breaks, lines 36-37 and 150-169.
ReadEOF ==
    /\ pc = "scan"
    /\ pos = Len(input)
    /\ eof' = TRUE
    /\ Become(Finish(Cur))
    /\ UNCHANGED <<input, pos, nread, vocab>>

\* br.ReadRune() returns another error: lines 38-40.
ReadFail ==
    /\ pc = "scan"
    /\ pos = Len(input)
    /\ Become(ReturnErr(Cur, ErrRead))
    /\ UNCHANGED <<input, pos, nread, eof, vocab>>

Next == Fill \/ ReadRune \/ ReadEOF \/ ReadFail

Spec == Init /\ [][Next]_vars

(***************************************************************************)
(* Reading the source text.  These definitions describe a document as the  *)
(* specification does (lines, comments, keywords, values); they do not     *)
(* use the scanner.                                                        *)
(***************************************************************************)
Horizontal == {SPACE, TAB}

Terminators == {CR, LF}

AlnumRunes == (48..57) \cup (65..90) \cup (97..122)

KeyRunes == AlnumRunes \cup {UNDERSCORE}

Roles == {strSystem, strUser, strAssistant}

LowerCase(str) == [i \in 1..Len(str) |-> IF str[i] \in 65..90 THEN str[i] + 32 ELSE str[i]]

SetMin(S) == CHOOSE x \in S : \A y \in S : x <= y

SetMax(S) == CHOOSE x \in S : \A y \in S : x >= y

AllIn(t, S) == \A k \in 1..Len(t) : t[k] \in S

\* The runes of the document that ReadRune has returned.
Consumed == SubSeq(input, 1, pos)

\* Index of the first rune of the line that holds (or would hold) index i.
LineStart(doc, i) ==
    LET T == {j \in 1..(i - 1) : doc[j] \in Terminators}
    IN  IF T = {} THEN 1 ELSE SetMax(T) + 1

\* The line that ends just before index e (a terminator, or one past the end).
LineAt(doc, e) == SubSeq(doc, LineStart(doc, e), e - 1)

\* Where the lines of doc end: at each terminator, and at the end of a
\* last line that has no terminator.
LineEnds(doc) ==
    {i \in 1..Len(doc) : doc[i] \in Terminators}
        \cup (IF Len(doc) > 0 /\ doc[Len(doc)] \notin Terminators
              THEN {Len(doc) + 1} ELSE {})

\* t without its leading spaces and tabs.
SkipWs(t) ==
    LET N == {k \in 1..Len(t) : t[k] \notin Horizontal}
    IN  IF N = {} THEN <<>> ELSE SubSeq(t, SetMin(N), Len(t))

HasSep(t) == \E k \in 1..Len(t) : t[k] \in Horizontal

\* t up to its first space or tab.
FirstWord(t) ==
    LET W == {k \in 1..Len(t) : t[k] \in Horizontal}
    IN  IF W = {} THEN t ELSE SubSeq(t, 1, SetMin(W) - 1)

\* t after its first space or tab.
AfterSep(t) ==
    LET W == {k \in 1..Len(t) : t[k] \in Horizontal}
    IN  IF W = {} THEN <<>> ELSE SubSeq(t, SetMin(W) + 1, Len(t))

IsBlank(l) == SkipWs(l) = <<>>

\* The comment convention: the first non-whitespace character is #.
IsComment(l) == SkipWs(l) # <<>> /\ SkipWs(l)[1] = HASH

IsDirective(l) == ~IsBlank(l) /\ ~IsComment(l)

\* The keyword of a directive line, lowercased.
KeywordOf(l) == LowerCase(FirstWord(SkipWs(l)))

DirectiveEnds(doc) == {e \in LineEnds(doc) : IsDirective(LineAt(doc, e))}

\* The i-th smallest element of S.
Nth(S, i) == CHOOSE e \in S : Cardinality({x \in S : x < e}) = i - 1

\* A directive line carries a non-empty value: text follows the keyword
\* (and the key or role of PARAMETER and MESSAGE) and its separator.
HasValue(l) ==
    LET rest == SkipWs(AfterSep(SkipWs(l)))
    IN  IF KeywordOf(l) \in {strParameter, strMessage}
        THEN SkipWs(AfterSep(rest)) # <<>>
        ELSE rest # <<>>

\* The last line of the raw text a record was scanned from.
SourceLine(buf) ==
    LET n == IF Len(buf) > 0 /\ buf[Len(buf)] \in Terminators
             THEN Len(buf) - 1 ELSE Len(buf)
    IN  LineAt(SubSeq(buf, 1, n), n + 1)

\* A record as callers compare it: name and value, the raw buffer ignored.
NameArgs(c) == <<c.Name, c.Args>>

Records(cs) == [i \in 1..Len(cs) |-> NameArgs(cs[i])]

\* Parse returned after consuming the whole document.
ReturnedAtEOF == pc = "done" /\ eof

(***************************************************************************)
(* C1.  For every accepted document in which every directive line carries  *)
(* a non-empty value, the returned list has exactly one record per         *)
(* directive line (a line that is neither blank nor a comment), and the    *)
(* i-th record was scanned from the i-th such line.                        *)
(***************************************************************************)
C1_OrderPreserved ==
    (/\ ReturnedAtEOF
     /\ retErr = NoErr
     /\ \A e \in DirectiveEnds(input) : HasValue(LineAt(input, e)))
    => LET D == DirectiveEnds(input)
       IN  /\ Len(retCmds) = Cardinality(D)
           /\ \A i \in 1..Len(retCmds) :
                  SourceLine(retCmds[i].Buffer) = LineAt(input, Nth(D, i))

(***************************************************************************)
(* C2.  A document that tokenizes without a syntax error and has no        *)
(* directive line whose keyword is FROM (in any letter case) is rejected   *)
(* with "no FROM line" and no records.                                     *)
(***************************************************************************)
C2_NoFromRejected ==
    (/\ ReturnedAtEOF
     /\ retErr \in {NoErr, ErrNoFrom}
     /\ \A e \in DirectiveEnds(input) : KeywordOf(LineAt(input, e)) # strFrom)
    => (retErr = ErrNoFrom /\ retCmds = <<>>)

(***************************************************************************)
(* Triple-quoted values, as the specification and the tests describe them. *)
(***************************************************************************)
\* Three consecutive double quotes start at index i of doc.
TripleAt(doc, i) ==
    /\ i >= 1
    /\ i + 2 <= Len(doc)
    /\ doc[i] = DQUOTE
    /\ doc[i + 1] = DQUOTE
    /\ doc[i + 2] = DQUOTE

\* The text of the line of index o that precedes o, without leading blanks.
HeadBefore(doc, o) == SkipWs(SubSeq(doc, LineStart(doc, o), o - 1))

\* h is a keyword (not PARAMETER, not MESSAGE) and one separator.
PlainHead(h) ==
    /\ HasSep(h)
    /\ FirstWord(h) # <<>>
    /\ AllIn(FirstWord(h), AlnumRunes)
    /\ LowerCase(FirstWord(h)) \notin {strParameter, strMessage}
    /\ AfterSep(h) = <<>>

\* h is PARAMETER, a separator, a key and a separator.
ParameterHead(h) ==
    /\ HasSep(h)
    /\ LowerCase(FirstWord(h)) = strParameter
    /\ HasSep(AfterSep(h))
    /\ FirstWord(AfterSep(h)) # <<>>
    /\ AllIn(FirstWord(AfterSep(h)), KeyRunes)
    /\ AfterSep(AfterSep(h)) = <<>>

\* h is MESSAGE, a separator, a recognized role and a separator.
MessageHead(h) ==
    /\ HasSep(h)
    /\ LowerCase(FirstWord(h)) = strMessage
    /\ HasSep(AfterSep(h))
    /\ FirstWord(AfterSep(h)) \in Roles
    /\ AfterSep(AfterSep(h)) = <<>>

\* The record name that the head of a directive line stands for.
HeadName(h) ==
    IF ParameterHead(h) THEN LowerCase(FirstWord(AfterSep(h)))
    ELSE IF MessageHead(h) THEN strMessage
    ELSE IF LowerCase(FirstWord(h)) = strFrom THEN strModel
    ELSE LowerCase(FirstWord(h))

\* What the head of a directive line puts in front of the value.
HeadPrefix(h) ==
    IF MessageHead(h) THEN FirstWord(AfterSep(h)) \o strColonSpace ELSE <<>>

\* A triple-quote delimiter at o opens the value of a directive: it comes
\* right after the separator and no quote character precedes it.
OpensValue(doc, o) ==
    /\ TripleAt(doc, o)
    /\ \A j \in 1..(o - 1) : doc[j] # DQUOTE
    /\ LET h == HeadBefore(doc, o)
       IN  PlainHead(h) \/ ParameterHead(h) \/ MessageHead(h)

\* The block opened at o closes at c, the next delimiter after the opening,
\* with some text in between.
ClosesAt(doc, o, c) ==
    /\ c > o + 3
    /\ TripleAt(doc, c)
    /\ \A j \in (o + 3)..(c - 1) : ~TripleAt(doc, j)

(***************************************************************************)
(* C3.  When a value opens with a triple-quote delimiter right after the   *)
(* separator, then once the closing delimiter has been read the emitted    *)
(* record holds exactly the text between the two delimiters (newlines      *)
(* kept, delimiters dropped) and the scanner is back in name mode.         *)
(***************************************************************************)
C3_TripleQuotedValue ==
    \A o \in 1..pos :
        (OpensValue(Consumed, o) /\ ClosesAt(Consumed, o, pos - 2))
        => /\ s = stateName
           /\ Len(cmds) > 0
           /\ NameArgs(cmds[Len(cmds)])
                = << HeadName(HeadBefore(Consumed, o)),
                     HeadPrefix(HeadBefore(Consumed, o))
                        \o SubSeq(Consumed, o + 3, pos - 3) >>

(***************************************************************************)
(* C4.  If a triple-quote delimiter opens a value and the input ends       *)
(* before a closing delimiter, Parse returns "unterminated multiline       *)
(* string" and no records.                                                 *)
(***************************************************************************)
C4_UnterminatedRejected ==
    (/\ ReturnedAtEOF
     /\ \E o \in 1..Len(input) :
            /\ OpensValue(input, o)
            /\ \A c \in (o + 3)..Len(input) : ~TripleAt(input, c))
    => (retErr = ErrUnterminated /\ retCmds = <<>>)

(***************************************************************************)
(* Shapes of single lines.                                                 *)
(***************************************************************************)
\* Parse returned the error e and no records.
Rejected(e) == pc = "done" /\ retErr = e /\ retCmds = <<>>

\* The rune at pos, the last one read, ends a line.
AtLineEnd == pos >= 1 /\ input[pos] \in Terminators

\* The line that the terminator at pos ends.
EndedLine == LineAt(input, pos)

\* The unterminated line the input ends with (empty if there is none).
LastLine == LineAt(input, Len(input) + 1)

\* The newest record of the list.
LastCmd == cmds[Len(cmds)]

\* v is plain text: not empty, not led by a blank or a triple quote.
PlainValue(v) == v # <<>> /\ v[1] \notin Horizontal /\ ~TripleAt(v, 1)

\* MESSAGE <role> <text> with a recognized role and a plain or empty text.
MessageLine(l) ==
    LET h == SkipWs(l)
    IN  /\ HasSep(h)
        /\ LowerCase(FirstWord(h)) = strMessage
        /\ HasSep(AfterSep(h))
        /\ FirstWord(AfterSep(h)) \in Roles
        /\ ~TripleAt(AfterSep(AfterSep(h)), 1)

MessageRole(l) == FirstWord(AfterSep(SkipWs(l)))

MessageText(l) == AfterSep(AfterSep(SkipWs(l)))

\* PARAMETER <key> <value>: single separators, a key of letters, digits
\* and underscores, a plain value.
ParameterLine(l) ==
    LET h == SkipWs(l)
    IN  /\ HasSep(h)
        /\ LowerCase(FirstWord(h)) = strParameter
        /\ HasSep(AfterSep(h))
        /\ FirstWord(AfterSep(h)) # <<>>
        /\ AllIn(FirstWord(AfterSep(h)), KeyRunes)
        /\ PlainValue(AfterSep(AfterSep(h)))

ParameterKey(l) == FirstWord(AfterSep(SkipWs(l)))

ParameterValue(l) == AfterSep(AfterSep(SkipWs(l)))

\* <keyword> <rest>: a keyword of letters and digits other than PARAMETER
\* and MESSAGE, followed by a separator.
KeywordLine(l) ==
    LET h == SkipWs(l)
    IN  /\ HasSep(h)
        /\ FirstWord(h) # <<>>
        /\ AllIn(FirstWord(h), AlnumRunes)
        /\ LowerCase(FirstWord(h)) \notin {strParameter, strMessage}

\* The record name the keyword of a line stands for.
KeywordName(l) ==
    IF KeywordOf(l) = strFrom THEN strModel ELSE KeywordOf(l)

\* A keyword, key or role with nothing after it: the token of l that was
\* started and is followed by neither separator nor value.
Dangling(l) ==
    LET h == SkipWs(l)
    IN  \/ h # <<>> /\ AllIn(h, AlnumRunes)
        \/ /\ HasSep(h)
           /\ LowerCase(FirstWord(h)) = strParameter
           /\ AfterSep(h) # <<>>
           /\ AllIn(AfterSep(h), KeyRunes)
        \/ /\ HasSep(h)
           /\ LowerCase(FirstWord(h)) = strMessage
           /\ AfterSep(h) # <<>>
           /\ ~HasSep(AfterSep(h))

PartialToken(l) ==
    IF HasSep(SkipWs(l)) THEN AfterSep(SkipWs(l)) ELSE SkipWs(l)

(***************************************************************************)
(* C5.  A newline-terminated line MESSAGE <role> <text> with a recognized  *)
(* role yields the record named "message" whose value is the role, ": "    *)
(* and the text.                                                           *)
(***************************************************************************)
C5_MessageRecord ==
    (AtLineEnd /\ MessageLine(EndedLine))
    => /\ Len(cmds) > 0
       /\ NameArgs(LastCmd)
            = << strMessage,
                 MessageRole(EndedLine) \o strColonSpace \o MessageText(EndedLine) >>

C5_Witness ==
    /\ AtLineEnd
    /\ MessageLine(EndedLine)
    /\ MessageText(EndedLine) = wUser
    /\ Len(cmds) > 0
    /\ LastCmd.Name = strMessage

(***************************************************************************)
(* C6.  When a space or tab ends the role word of a MESSAGE directive and  *)
(* the word is not exactly system, user or assistant, Parse returns the    *)
(* role error and no records.                                              *)
(***************************************************************************)
RoleEndsHere ==
    /\ pos >= 1
    /\ input[pos] \in Horizontal
    /\ LET h == SkipWs(SubSeq(input, LineStart(input, pos), pos - 1))
       IN  /\ HasSep(h)
           /\ LowerCase(FirstWord(h)) = strMessage
           /\ ~HasSep(AfterSep(h))

RoleWord == AfterSep(SkipWs(SubSeq(input, LineStart(input, pos), pos - 1)))

C6_InvalidRoleRejected ==
    (RoleEndsHere /\ RoleWord \notin Roles) => Rejected(ErrRole)

C6_Witness == RoleEndsHere /\ RoleWord = wUser /\ Rejected(ErrRole)

(***************************************************************************)
(* C7.  A keyword, PARAMETER key or MESSAGE role of at least one character *)
(* that is followed directly by a newline or by the end of input makes     *)
(* Parse return "missing value for [T]", T the token as typed, and no      *)
(* records.                                                                *)
(***************************************************************************)
C7_MissingValue ==
    /\ (AtLineEnd /\ Dangling(EndedLine))
       => Rejected(ErrMissingValue(PartialToken(EndedLine)))
    /\ (ReturnedAtEOF /\ Dangling(LastLine))
       => Rejected(ErrMissingValue(PartialToken(LastLine)))

C7_Witness ==
    /\ ReturnedAtEOF
    /\ Dangling(LastLine)
    /\ KeywordOf(LastLine) = strParameter
    /\ PartialToken(LastLine) = wUser
    /\ Len(cmds) > 0
    /\ retErr = ErrMissingValue(wUser)

(***************************************************************************)
(* C8.  Keywords are matched case-insensitively and unknown ones are let   *)
(* through: a line whose keyword is FROM in any case yields a record named *)
(* "model", any other keyword (not PARAMETER, not MESSAGE) a record named  *)
(* by the keyword in lower case; the document FROM x alone yields the one  *)
(* record (model, x).                                                      *)
(***************************************************************************)
C8_KeywordNames ==
    /\ (AtLineEnd /\ KeywordLine(EndedLine))
       => (Len(cmds) > 0 /\ LastCmd.Name = KeywordName(EndedLine))
    /\ (/\ ReturnedAtEOF
        /\ input = LastLine
        /\ input = SkipWs(input)
        /\ KeywordOf(input) = strFrom
        /\ PlainValue(AfterSep(input)))
       => (retErr = NoErr /\ Records(retCmds) = << <<strModel, AfterSep(input)>> >>)

C8_Witness ==
    /\ ReturnedAtEOF
    /\ input = wFrom \o <<SPACE>> \o wUser
    /\ Records(retCmds) = << <<strModel, wUser>> >>

(***************************************************************************)
(* C9.  A line PARAMETER <key> <value> yields the record (key in lower     *)
(* case, value), whether a newline or the end of input ends it; its name   *)
(* is the key, not the word "parameter".                                   *)
(***************************************************************************)
ParameterRecord(l) ==
    /\ Len(cmds) > 0
    /\ NameArgs(LastCmd) = << LowerCase(ParameterKey(l)), ParameterValue(l) >>
    /\ (LowerCase(ParameterKey(l)) # strParameter => LastCmd.Name # strParameter)

C9_ParameterRecord ==
    /\ (AtLineEnd /\ ParameterLine(EndedLine)) => ParameterRecord(EndedLine)
    /\ (ReturnedAtEOF /\ ParameterLine(LastLine)) => ParameterRecord(LastLine)

C9_Witness ==
    /\ ReturnedAtEOF
    /\ ParameterLine(LastLine)
    /\ ParameterKey(LastLine) = wUser
    /\ retErr = NoErr
    /\ Len(retCmds) = 2
    /\ LastCmd.Name = strUser

(***************************************************************************)
(* C10.  Deleting a comment line (a line whose first non-whitespace        *)
(* character is #) together with its terminator leaves the result of       *)
(* Parse unchanged: the records and the error.                             *)
(***************************************************************************)
DeleteLine(doc, e) ==
    SubSeq(doc, 1, LineStart(doc, e) - 1) \o SubSeq(doc, e + 1, Len(doc))

\* What a call returned, as callers compare it.
Outcome(st) == << Records(st.retCmds), st.retErr >>

C10_CommentsIgnored ==
    (pc = "done" /\ retErr # ErrRead)
    => \A e \in LineEnds(input) :
           IsComment(LineAt(input, e))
           => Outcome(Parse(DeleteLine(input, e))) = << Records(retCmds), retErr >>

C10_Witness ==
    /\ ReturnedAtEOF
    /\ retErr = NoErr
    /\ Len(retCmds) = 2
    /\ \E e \in LineEnds(input) :
           /\ IsComment(LineAt(input, e))
           /\ LineStart(input, e) > 1
           /\ e < Len(input)

(***************************************************************************)
(* C11.  Every call of Parse ends in exactly one of two outcomes: a nil    *)
(* error with a list holding at least one record named "model", or an      *)
(* error with a nil list; records scanned before a failure are never       *)
(* returned with the error.                                                *)
(***************************************************************************)
HasModel(cs) == \E i \in 1..Len(cs) : cs[i].Name = strModel

C11_ResultOrError ==
    (pc = "done")
    => \/ (retErr = NoErr /\ HasModel(retCmds))
       \/ (retErr # NoErr /\ retCmds = <<>>)

C11_Witness ==
    /\ pc = "done"
    /\ retErr = ErrRead
    /\ Len(cmds) = 2
    /\ retCmds = <<>>

(***************************************************************************)
(* C12.  Every record appended to the list has a non-empty name, also on   *)
(* lines where PARAMETER is followed by more than one space or tab.        *)
(***************************************************************************)
C12_NamesNonEmpty == \A i \in 1..Len(cmds) : cmds[i].Name # <<>>

(***************************************************************************)
(* C14.  The end of input acts as a line terminator: when the input ends   *)
(* in value mode with a non-empty accumulated value, Parse returns the     *)
(* same record list as for the document with one newline appended.         *)
(***************************************************************************)
C14_EndOfInputEndsLine ==
    (ReturnedAtEOF /\ s = stateArgs /\ Len(b) > 0)
    => Records(retCmds) = Records(Parse(input \o <<LF>>).retCmds)

(***************************************************************************)
(* C15.  In name mode a # starts a comment only while the name buffer is   *)
(* empty: a # read after letters or digits of a directive name makes       *)
(* Parse fail with an error and no records.                                *)
(***************************************************************************)
\* The text of the line of the rune at pos that precedes it, without
\* leading blanks.
HeadAtPos == SkipWs(SubSeq(input, LineStart(input, pos), pos - 1))

\* The rune at pos is a # that follows letters or digits of a name.
HashAfterName ==
    /\ pos >= 1
    /\ input[pos] = HASH
    /\ HeadAtPos # <<>>
    /\ AllIn(HeadAtPos, AlnumRunes)

C15_HashAfterNameRejected ==
    HashAfterName => (pc = "done" /\ retErr # NoErr /\ retCmds = <<>>)

(***************************************************************************)
(* C16.  On a plain directive line the run of spaces and tabs between the  *)
(* keyword (or PARAMETER key, or MESSAGE role) and the value, however      *)
(* long, and the terminating newline are not part of the record's value;   *)
(* the characters of the value are kept as they are.                       *)
(***************************************************************************)
\* The value that follows a separator run: the text after the first
\* separator, without the rest of the run.
ValueAfterRun(t) == SkipWs(AfterSep(t))

\* v is a plain value: not empty and not opened by a triple quote.
Unquoted(v) == v # <<>> /\ ~TripleAt(v, 1)

\* PARAMETER, one separator, a key, then a run of separators and a value.
ParameterRunLine(l) ==
    LET h == SkipWs(l)
    IN  /\ HasSep(h)
        /\ LowerCase(FirstWord(h)) = strParameter
        /\ FirstWord(AfterSep(h)) # <<>>
        /\ AllIn(FirstWord(AfterSep(h)), KeyRunes)
        /\ Unquoted(ValueAfterRun(AfterSep(h)))

\* MESSAGE, one separator, a recognized role, then a run and a text.
MessageRunLine(l) ==
    LET h == SkipWs(l)
    IN  /\ HasSep(h)
        /\ LowerCase(FirstWord(h)) = strMessage
        /\ FirstWord(AfterSep(h)) \in Roles
        /\ Unquoted(ValueAfterRun(AfterSep(h)))

C16_SeparatorsNotInValue ==
    AtLineEnd =>
        LET h == SkipWs(EndedLine)
        IN  /\ (KeywordLine(EndedLine) /\ Unquoted(ValueAfterRun(h)))
               => /\ Len(cmds) > 0
                  /\ NameArgs(LastCmd) = << KeywordName(EndedLine), ValueAfterRun(h) >>
            /\ ParameterRunLine(EndedLine)
               => /\ Len(cmds) > 0
                  /\ NameArgs(LastCmd)
                       = << LowerCase(FirstWord(AfterSep(h))),
                            ValueAfterRun(AfterSep(h)) >>
            /\ MessageRunLine(EndedLine)
               => /\ Len(cmds) > 0
                  /\ NameArgs(LastCmd)
                       = << strMessage,
                            FirstWord(AfterSep(h)) \o strColonSpace
                                \o ValueAfterRun(AfterSep(h)) >>

(***************************************************************************)
(* Syntax errors, read off the text of a document.                         *)
(***************************************************************************)
\* The rune at index i stands in name mode: only letters and digits
\* precede it on its line, after leading blanks.
InNameMode(doc, i) == AllIn(HeadBefore(doc, i), AlnumRunes)

\* The rune at index i stands in parameter-key mode: PARAMETER, one
\* separator and key characters precede it on its line.
InKeyMode(doc, i) ==
    LET h == HeadBefore(doc, i)
    IN  /\ HasSep(h)
        /\ AllIn(FirstWord(h), AlnumRunes)
        /\ LowerCase(FirstWord(h)) = strParameter
        /\ AllIn(AfterSep(h), KeyRunes)

\* Name mode defines no transition for the rune at index i.
UnexpectedInName(doc, i) ==
    /\ doc[i] \notin AlnumRunes \cup {HASH} \cup Horizontal \cup Terminators
    /\ InNameMode(doc, i)

\* Parameter-key mode defines no transition for the rune at index i.
UnexpectedInKey(doc, i) ==
    /\ doc[i] \notin KeyRunes \cup Horizontal \cup Terminators
    /\ InKeyMode(doc, i)

\* A # at index i after letters or digits of a directive name.
HashInName(doc, i) ==
    /\ doc[i] = HASH
    /\ HeadBefore(doc, i) # <<>>
    /\ AllIn(HeadBefore(doc, i), AlnumRunes)

\* The line that ends before e lacks its value: a dangling keyword, key or
\* role, or PARAMETER or MESSAGE with a newline where the key or role
\* should start.
LacksValue(doc, e) ==
    LET h == SkipWs(LineAt(doc, e))
    IN  \/ Dangling(LineAt(doc, e))
        \/ /\ e <= Len(doc)
           /\ HasSep(h)
           /\ LowerCase(FirstWord(h)) \in {strParameter, strMessage}
           /\ AfterSep(h) = <<>>

\* The line that ends before e is a MESSAGE whose role word, ended by a
\* separator, is not a recognized role.
BadRole(doc, e) ==
    LET h == SkipWs(LineAt(doc, e))
    IN  /\ HasSep(h)
        /\ LowerCase(FirstWord(h)) = strMessage
        /\ HasSep(AfterSep(h))
        /\ FirstWord(AfterSep(h)) \notin Roles

\* A triple-quoted value opens at o and is not closed.
Unterminated(doc, o) ==
    /\ OpensValue(doc, o)
    /\ \A c \in (o + 3)..Len(doc) : ~TripleAt(doc, c)

\* The document contains a syntax error of the specification's section 7.
HasSyntaxError(doc) ==
    \/ \E i \in 1..Len(doc) :
           \/ UnexpectedInName(doc, i)
           \/ UnexpectedInKey(doc, i)
           \/ HashInName(doc, i)
           \/ Unterminated(doc, i)
    \/ \E e \in LineEnds(doc) : LacksValue(doc, e) \/ BadRole(doc, e)

\* A FROM directive: the keyword in any letter case, a separator, a value.
FromLine(l) ==
    /\ KeywordLine(l)
    /\ KeywordOf(l) = strFrom
    /\ AfterSep(SkipWs(l)) # <<>>

(***************************************************************************)
(* C17.  The base-directive check runs only after the whole input has      *)
(* been consumed without error: "no FROM line" is never returned for a     *)
(* document that contains a syntax error, and a FROM directive satisfies   *)
(* the check wherever it stands, also as the last line.                    *)
(***************************************************************************)
C17_FromCheckedLast ==
    /\ (pc = "done" /\ retErr = ErrNoFrom)
       => (eof /\ pos = Len(input) /\ ~HasSyntaxError(input))
    /\ (/\ ReturnedAtEOF
        /\ retErr \in {NoErr, ErrNoFrom}
        /\ \E e \in LineEnds(input) : FromLine(LineAt(input, e)))
       => retErr = NoErr

(***************************************************************************)
(* C18.  Whenever the scanner returns to name mode, after a record or a    *)
(* comment line, the accumulator is empty and the record in progress has   *)
(* an empty name and an empty value; so the record of a line is the one    *)
(* the line yields when scanned on its own, and no character of an         *)
(* earlier line (a comment, a name cut short by #) shows up in it.         *)
(***************************************************************************)
\* The records that the line ended by the terminator at e yields when it
\* is scanned on its own.
PerLine(doc, e) == Records(Parse(LineAt(doc, e) \o <<doc[e]>>).cmds)

C18_CleanOnReturn ==
    (AtLineEnd /\ pc = "scan")
    => /\ s = stateName
       /\ b = <<>>
       /\ cmd.Name = <<>>
       /\ cmd.Args = <<>>
       /\ PerLine(input, pos) # <<>>
          => (Len(cmds) > 0 /\ NameArgs(LastCmd) = PerLine(input, pos)[1])

C18_Witness ==
    /\ AtLineEnd
    /\ pc = "scan"
    /\ Len(cmds) = 1
    /\ LastCmd.Name = strModel
    /\ \E i \in 1..pos : HashInName(input, i)

(***************************************************************************)
(* C19.  A character for which the active mode defines no transition       *)
(* aborts the scan at that character with an unexpected-character error    *)
(* and no records: in name mode every character other than a letter, a     *)
(* digit, #, space, tab, CR or LF; in parameter-key mode every character   *)
(* other than a letter, a digit, underscore, space, tab, CR or LF.  The    *)
(* other modes never raise this error.                                     *)
(***************************************************************************)
C19_UnexpectedCharacter ==
    /\ (pos >= 1 /\ UnexpectedInName(input, pos))
       => Rejected(ErrUnexpectedRune(input[pos], stateName))
    /\ (pos >= 1 /\ UnexpectedInKey(input, pos))
       => Rejected(ErrUnexpectedRune(input[pos], stateParameter))
    /\ (pc = "done" /\ retErr.msg = ErrUnexpectedRune(0, 0).msg)
       => /\ pos >= 1
          /\ retCmds = <<>>
          /\ UnexpectedInName(input, pos) \/ UnexpectedInKey(input, pos)

C19_Witness ==
    /\ Rejected(ErrUnexpectedRune(HASH, stateParameter))
    /\ Len(cmds) = 1
    /\ UnexpectedInKey(input, pos)

(***************************************************************************)
(* C20.  Line terminators are interchangeable for plain values: replacing  *)
(* every LF of a document by CR LF, or by a lone CR, does not change the   *)
(* result of Parse, and no CR or LF appears in the name or the value of    *)
(* a record.                                                               *)
(***************************************************************************)
\* doc with term in the place of every line feed.
RECURSIVE WithTerminator(_, _)
WithTerminator(doc, term) ==
    IF doc = <<>> THEN <<>>
    ELSE (IF Head(doc) = LF THEN term ELSE <<Head(doc)>>)
            \o WithTerminator(Tail(doc), term)

C20_TerminatorIndependent ==
    /\ \A i \in 1..Len(cmds) :
           /\ \A k \in 1..Len(cmds[i].Name) : cmds[i].Name[k] \notin Terminators
           /\ \A k \in 1..Len(cmds[i].Args) : cmds[i].Args[k] \notin Terminators
    /\ (pc = "done" /\ retErr # ErrRead)
       => /\ Outcome(Parse(WithTerminator(input, <<CR, LF>>))) = Outcome(Cur)
          /\ Outcome(Parse(WithTerminator(input, <<CR>>))) = Outcome(Cur)

C20_Witness ==
    /\ ReturnedAtEOF
    /\ retErr = NoErr
    /\ Len(retCmds) = 2
    /\ input[Len(input)] = LF
    /\ \E i \in 1..Len(input) : input[i] = HASH

====
